---- MODULE Spec2Model ----
(***************************************************************************)
(* A model of metricsd's MetricsDaemon (src/metricsd/metrics_daemon.cc):   *)
(* the persistent counters, the start-up sequence of Run(), the stats      *)
(* update with its daily / weekly flush, the crash handlers and the three  *)
(* self re-arming callbacks of the message loop.                           *)
(*                                                                         *)
(* Handlers run one at a time on the message loop, so each handler is one  *)
(* action.  A handler is written as an operator from the daemon's state    *)
(* (the record d) to its next state, composed the way the C++ composes its *)
(* calls.                                                                  *)
(***************************************************************************)
EXTENDS Integers, Sequences, FiniteSets, TLC

(***************************************************************************)
(* Bounds of the model.                                                    *)
(***************************************************************************)
\* events of one behaviour: the steps of the environment (a clock advances,
\* a marker is written, the OS is updated), the starts and stops of the daemon
\* and the handlers the message loop runs
MaxEvents == 8
\* the wall clock starts in the middle of this day (days since the epoch)
FirstDay == 6

(***************************************************************************)
(* Program constants.                                                      *)
(***************************************************************************)
kSecondsPerMinute == 60
kMinutesPerHour == 60
kHoursPerDay == 24
kMinutesPerDay == kHoursPerDay * kMinutesPerHour
kSecondsPerDay == kSecondsPerMinute * kMinutesPerDay
kDaysPerWeek == 7
kSecondsPerWeek == kSecondsPerDay * kDaysPerWeek
kUpdateStatsIntervalMs == 300000
kMetricMeminfoInterval == 30
kMemuseIntervals ==
  << 1 * kSecondsPerMinute, 4 * kSecondsPerMinute, 25 * kSecondsPerMinute,
     120 * kSecondsPerMinute, 600 * kSecondsPerMinute >>
\* the production configuration: Init(testing = false, ...)
testing_ == FALSE
\* the hash GetOsVersionHash returns under testing_
kTestingVersionHash == <<0, 42>>

\* base::TimeDelta and base::TimeTicks count microseconds
MicrosecondsPerSecond == 1000000
MicrosecondsPerMillisecond == 1000
ClockStep == MicrosecondsPerSecond \div 2
WallStep == kSecondsPerDay \div 2
\* the CPU time the device uses while the monotonic clock advances one step
CpuStep == (501 * MicrosecondsPerMillisecond) \div 2

(***************************************************************************)
(* Integer conversions of the C++.                                         *)
(***************************************************************************)
\* C++ integer division truncates toward zero (b > 0)
CDiv(a, b) == IF a >= 0 THEN a \div b ELSE -((-a) \div b)
\* floor(a * k / m) for a >= 0, k >= 0, m > 0, computed without the wide
\* product a * k (the C++ computes it in 64 bits)
MulDiv(a, k, m) == (a \div m) * k + ((a % m) * k) \div m
\* A uint32 is held as its two 16-bit halves <<high, low>>; its conversion to
\* int32_t keeps the bits, so a high half of 2^15 or more gives a negative int.
\* (Every other integer of the model is within the 32-bit int range, where the
\* narrowing of an int64 to int changes nothing.)
UInt32ToInt32(h) ==
  (IF h[1] >= 32768 THEN h[1] - 65536 ELSE h[1]) * 65536 + h[2]
\* What an int operation that overflows does is undefined: the instruction
\* of the machine wraps around, or a build that checks overflow stops the
\* process.
SignedOverflow == { "wrap", "trap" }
Int32Max == 2147483647
\* the int a + b
Plus(a, b, undefined) ==
  IF b >= 0 /\ a > Int32Max - b
    THEN IF undefined = "trap" THEN [trap |-> TRUE, value |-> 0]
         ELSE [trap |-> FALSE,
               value |-> (a - Int32Max - 1) + (b - Int32Max - 1)]
  ELSE IF b < 0 /\ a < (-Int32Max - 1) - b
    THEN IF undefined = "trap" THEN [trap |-> TRUE, value |-> 0]
         ELSE [trap |-> FALSE,
               value |-> (a + Int32Max + 1) + (b + Int32Max + 1)]
  ELSE [trap |-> FALSE, value |-> a + b]
\* the low 32 bits of v * 100 as an int, v >= 0, by 16-bit halves
WrappedTimes100(v) ==
  LET low == (v % 65536) * 100
      high == (v \div 65536) * 100 + low \div 65536
  IN UInt32ToInt32(<< high % 65536, low % 65536 >>)
\* the int v * 100
Times100(v, undefined) ==
  IF v >= -(Int32Max \div 100) /\ v <= Int32Max \div 100
    THEN [trap |-> FALSE, value |-> v * 100]
  ELSE IF undefined = "trap" THEN [trap |-> TRUE, value |-> 0]
  ELSE IF v >= 0 THEN [trap |-> FALSE, value |-> WrappedTimes100(v)]
  ELSE LET p == WrappedTimes100(-v)
       IN [trap |-> FALSE, value |-> IF p = -Int32Max - 1 THEN p ELSE -p]
\* TimeDelta::InSeconds, InMilliseconds, InDays
InSeconds(us) == CDiv(us, MicrosecondsPerSecond)
InMilliseconds(us) == CDiv(us, MicrosecondsPerMillisecond)
InDays(secs) == CDiv(secs, kSecondsPerDay)

(***************************************************************************)
(* The persistent counters the daemon creates in Init().                   *)
(***************************************************************************)
Counters ==
  { "daily_active_use_", "version_cumulative_active_use_",
    "version_cumulative_cpu_use_",
    "kernel_crash_interval_", "unclean_shutdown_interval_",
    "user_crash_interval_",
    "any_crashes_daily_count_", "any_crashes_weekly_count_",
    "user_crashes_daily_count_", "user_crashes_weekly_count_",
    "kernel_crashes_daily_count_", "kernel_crashes_weekly_count_",
    "kernel_crashes_version_count_",
    "unclean_shutdowns_daily_count_", "unclean_shutdowns_weekly_count_",
    "daily_cycle_", "weekly_cycle_", "version_cycle_" }

VersionCounters ==
  { "version_cycle_", "kernel_crashes_version_count_",
    "version_cumulative_active_use_", "version_cumulative_cpu_use_" }
DailyCounters ==
  { "daily_active_use_", "any_crashes_daily_count_",
    "user_crashes_daily_count_", "kernel_crashes_daily_count_",
    "unclean_shutdowns_daily_count_" }
WeeklyCounters ==
  { "any_crashes_weekly_count_", "user_crashes_weekly_count_",
    "kernel_crashes_weekly_count_", "unclean_shutdowns_weekly_count_" }
IntervalCounters ==
  { "kernel_crash_interval_", "unclean_shutdown_interval_",
    "user_crash_interval_" }

VARIABLES
  pc,           \* where the daemon process is: "stopped", the steps of Run(), "loop",
                \* "aborted" by a fatal check
  d,            \* the MetricsDaemon object, its counters and their backing files
  marker,       \* the two boot marker files: present or not
  now_ticks,    \* TimeTicks::Now(), microseconds
  wall_time,    \* Time::Now() - Time::UnixEpoch(), seconds
  cpu_use,      \* CpuUsageCollector::GetCumulativeCpuUse(), microseconds
  os_version,   \* the uint32 hash of the installed OS version, <<high, low>>
  active_time,  \* GetActiveTime(), in half seconds
  events,       \* events so far (see MaxEvents)
  last,         \* the operation that led to this state
  hist          \* history: what the runs so far did (see HistInit)

vars ==
  << pc, d, marker, now_ticks, wall_time, cpu_use, os_version, active_time,
     events, last, hist >>

(***************************************************************************)
(* PersistentInteger (metricsd/persistent_integer.cc is not among the      *)
(* sources; modelled from its contract).  s.disk is the backing file,      *)
(* s.value the in-memory copy, valid once s.synced.                        *)
(***************************************************************************)
\* the one element of a singleton set; an operator that uses its state
\* argument twice takes it as t \in {s}, so that s is evaluated once
Only(S) == CHOOSE r \in S : TRUE

PI_Get(s, n) == IF s.synced[n] THEN s.value[n] ELSE s.disk[n]
\* the state after Get(): the in-memory copy is loaded
PI_Sync(s, n) ==
  Only({ [t EXCEPT !.value[n] = PI_Get(t, n), !.synced[n] = TRUE] : t \in {s} })
PI_Set(s, n, v) ==
  [s EXCEPT !.value[n] = v, !.synced[n] = TRUE, !.disk[n] = v]
PI_Add(s, n, x) == Only({ PI_Set(t, n, PI_Get(t, n) + x) : t \in {s} })
\* the state after GetAndClear(); its result is PI_Get(s, n)
PI_Clear(s, n) == PI_Set(s, n, 0)

\* the value counter n holds in the running daemon
Val(n) == PI_Get(d, n)

(***************************************************************************)
(* Samples.  d.sent is the sequence of samples the current handler handed  *)
(* to the metrics library: <<name, value>>.                                *)
(***************************************************************************)
SendSample(s, name, sample) ==
  [s EXCEPT !.sent = Append(@, <<name, sample>>)]

\* LOG_IF(FATAL, nbuckets != max + 1): the daemon dies when it fails
SendLinearSample(s, name, sample, max, nbuckets) ==
  IF nbuckets # max + 1
    THEN [s EXCEPT !.fatal = TRUE]
    ELSE [s EXCEPT !.sent = Append(@, <<name, sample>>)]

SendAndResetDailyUseSample(s, use) ==
  Only({ PI_Clear(SendSample(t, use, PI_Get(t, use)), use) : t \in {s} })

SendAndResetCrashIntervalSample(s, interval) ==
  Only({ PI_Clear(SendSample(t, interval, PI_Get(t, interval)), interval) :
         t \in {s} })

SendAndResetCrashFrequencySample(s, frequency) ==
  Only({ PI_Clear(SendSample(t, frequency, PI_Get(t, frequency)), frequency) :
         t \in {s} })

\* SendKernelCrashesCumulativeCountStats clearing the crash count it sent
SendKernelCrashesCumulativeCountStats_CountCleared(s) ==
  Only({
    LET crashes_count == PI_Get(t, "kernel_crashes_version_count_")
        s1 == SendSample(PI_Clear(t, "kernel_crashes_version_count_"),
                         "kernel_crashes_version_count_", crashes_count)
        cpu_use_ms == PI_Get(s1, "version_cumulative_cpu_use_")
        s2 == SendSample(PI_Sync(s1, "version_cumulative_cpu_use_"),
                         "version_cumulative_cpu_use_", CDiv(cpu_use_ms, 1000))
        s3 == IF cpu_use_ms > 0
                THEN SendSample(s2, "Logging.KernelCrashesPerCpuYear",
                       MulDiv(crashes_count * kSecondsPerDay * 365, 1000,
                              cpu_use_ms))
                ELSE s2
        active_use_seconds == PI_Get(s3, "version_cumulative_active_use_")
        s4 == PI_Sync(s3, "version_cumulative_active_use_")
    IN IF active_use_seconds > 0
         THEN SendSample(
                SendSample(s4, "version_cumulative_active_use_",
                           active_use_seconds),
                "Logging.KernelCrashesPerActiveYear",
                CDiv(crashes_count * kSecondsPerDay * 365, active_use_seconds))
         ELSE s4
    : t \in {s} })

SendKernelCrashesCumulativeCountStats(s) ==
  Only({
    LET crashes_count == PI_Get(t, "kernel_crashes_version_count_")
        s1 == SendSample(PI_Sync(t, "kernel_crashes_version_count_"),
                         "kernel_crashes_version_count_", crashes_count)
        cpu_use_ms == PI_Get(s1, "version_cumulative_cpu_use_")
        s2 == SendSample(PI_Sync(s1, "version_cumulative_cpu_use_"),
                         "version_cumulative_cpu_use_", CDiv(cpu_use_ms, 1000))
        s3 == IF cpu_use_ms > 0
                THEN SendSample(s2, "Logging.KernelCrashesPerCpuYear",
                       MulDiv(crashes_count * kSecondsPerDay * 365, 1000,
                              cpu_use_ms))
                ELSE s2
        active_use_seconds == PI_Get(s3, "version_cumulative_active_use_")
        s4 == PI_Sync(s3, "version_cumulative_active_use_")
    IN IF active_use_seconds > 0
         THEN SendSample(
                SendSample(s4, "version_cumulative_active_use_",
                           active_use_seconds),
                "Logging.KernelCrashesPerActiveYear",
                CDiv(crashes_count * kSecondsPerDay * 365, active_use_seconds))
         ELSE s4
    : t \in {s} })

(***************************************************************************)
(* UpdateStats(now_ticks, now_wall_time); cpu is the collector's reading.  *)
(***************************************************************************)
ElapsedSeconds(s, ticks) == InSeconds(ticks - s.last_update_stats_time_)

\* DailyFlush without daily_cycle_->Set(day)
DailyFlush_CycleNotSet(s, day) ==
  LET s0 == PI_Sync(s, "daily_cycle_")
      s1 == SendAndResetDailyUseSample(s0, "daily_active_use_")
      s2 == SendAndResetCrashFrequencySample(s1, "any_crashes_daily_count_")
      s3 == SendAndResetCrashFrequencySample(s2, "user_crashes_daily_count_")
      s4 == SendAndResetCrashFrequencySample(s3, "kernel_crashes_daily_count_")
      s5 == SendAndResetCrashFrequencySample(s4,
                                             "unclean_shutdowns_daily_count_")
  IN SendKernelCrashesCumulativeCountStats(s5)

\* DailyFlush sending and resetting a weekly counter as well
DailyFlush_WeeklyCounterReset(s, day) ==
  LET s0 == PI_Set(s, "daily_cycle_", day)
      s1 == SendAndResetDailyUseSample(s0, "daily_active_use_")
      s2 == SendAndResetCrashFrequencySample(s1, "any_crashes_daily_count_")
      s3 == SendAndResetCrashFrequencySample(s2, "user_crashes_daily_count_")
      s4 == SendAndResetCrashFrequencySample(s3, "kernel_crashes_daily_count_")
      s5 == SendAndResetCrashFrequencySample(s4,
                                             "unclean_shutdowns_daily_count_")
      s6 == SendAndResetCrashFrequencySample(s5, "any_crashes_weekly_count_")
  IN SendKernelCrashesCumulativeCountStats(s6)

DailyFlush(s, day) ==
  LET s0 == PI_Set(s, "daily_cycle_", day)
      s1 == SendAndResetDailyUseSample(s0, "daily_active_use_")
      s2 == SendAndResetCrashFrequencySample(s1, "any_crashes_daily_count_")
      s3 == SendAndResetCrashFrequencySample(s2, "user_crashes_daily_count_")
      s4 == SendAndResetCrashFrequencySample(s3, "kernel_crashes_daily_count_")
      s5 == SendAndResetCrashFrequencySample(s4,
                                             "unclean_shutdowns_daily_count_")
  IN SendKernelCrashesCumulativeCountStats(s5)

WeeklyFlush(s, week) ==
  LET s0 == PI_Set(s, "weekly_cycle_", week)
      s1 == SendAndResetCrashFrequencySample(s0, "any_crashes_weekly_count_")
      s2 == SendAndResetCrashFrequencySample(s1, "user_crashes_weekly_count_")
      s3 == SendAndResetCrashFrequencySample(s2,
                                             "kernel_crashes_weekly_count_")
  IN SendAndResetCrashFrequencySample(s3, "unclean_shutdowns_weekly_count_")

UpdateStats(s, ticks, wall, cpu) ==
  LET elapsed_seconds == ElapsedSeconds(s, ticks)
      s1 == PI_Add(s, "daily_active_use_", elapsed_seconds)
      s2 == PI_Add(s1, "version_cumulative_active_use_", elapsed_seconds)
      s3 == PI_Add(s2, "user_crash_interval_", elapsed_seconds)
      s4 == PI_Add(s3, "kernel_crash_interval_", elapsed_seconds)
      s5 == PI_Add(s4, "version_cumulative_cpu_use_",
                   InMilliseconds(cpu - s.latest_cpu_use_microseconds_))
      s6 == [s5 EXCEPT !.latest_cpu_use_microseconds_ = cpu,
                       !.last_update_stats_time_ = ticks]
      day == InDays(wall)
      week == CDiv(day, 7)
      s7 == IF PI_Get(s6, "daily_cycle_") # day
              THEN DailyFlush(s6, day)
              ELSE PI_Sync(s6, "daily_cycle_")
  IN IF PI_Get(s7, "weekly_cycle_") # week
       THEN WeeklyFlush(s7, week)
       ELSE PI_Sync(s7, "weekly_cycle_")


(***************************************************************************)
(* The crash handlers.                                                     *)
(***************************************************************************)
\* ProcessUserCrash without any_crashes_weekly_count_->Add(1)
ProcessUserCrash_AnyWeeklyMissed(s, ticks, wall, cpu) ==
  LET s1 == UpdateStats(s, ticks, wall, cpu)
      s2 == SendAndResetCrashIntervalSample(s1, "user_crash_interval_")
      s3 == PI_Add(s2, "any_crashes_daily_count_", 1)
      s5 == PI_Add(s3, "user_crashes_daily_count_", 1)
  IN PI_Add(s5, "user_crashes_weekly_count_", 1)

ProcessUserCrash(s, ticks, wall, cpu) ==
  LET s1 == UpdateStats(s, ticks, wall, cpu)
      s2 == SendAndResetCrashIntervalSample(s1, "user_crash_interval_")
      s3 == PI_Add(s2, "any_crashes_daily_count_", 1)
      s4 == PI_Add(s3, "any_crashes_weekly_count_", 1)
      s5 == PI_Add(s4, "user_crashes_daily_count_", 1)
  IN PI_Add(s5, "user_crashes_weekly_count_", 1)

\* ProcessKernelCrash counting the crash before the stats update
ProcessKernelCrash_CountedBeforeUpdate(s, ticks, wall, cpu) ==
  LET s2 == PI_Add(s, "any_crashes_daily_count_", 1)
      s3 == PI_Add(s2, "any_crashes_weekly_count_", 1)
      s4 == PI_Add(s3, "kernel_crashes_daily_count_", 1)
      s5 == PI_Add(s4, "kernel_crashes_weekly_count_", 1)
      s6 == PI_Add(s5, "kernel_crashes_version_count_", 1)
      s7 == UpdateStats(s6, ticks, wall, cpu)
  IN SendAndResetCrashIntervalSample(s7, "kernel_crash_interval_")

ProcessKernelCrash(s, ticks, wall, cpu) ==
  LET s1 == UpdateStats(s, ticks, wall, cpu)
      s2 == SendAndResetCrashIntervalSample(s1, "kernel_crash_interval_")
      s3 == PI_Add(s2, "any_crashes_daily_count_", 1)
      s4 == PI_Add(s3, "any_crashes_weekly_count_", 1)
      s5 == PI_Add(s4, "kernel_crashes_daily_count_", 1)
      s6 == PI_Add(s5, "kernel_crashes_weekly_count_", 1)
  IN PI_Add(s6, "kernel_crashes_version_count_", 1)

\* ProcessUncleanShutdown without any_crashes_daily_count_->Add(1)
ProcessUncleanShutdown_AnyDailyMissed(s, ticks, wall, cpu) ==
  LET s1 == UpdateStats(s, ticks, wall, cpu)
      s2 == SendAndResetCrashIntervalSample(s1, "unclean_shutdown_interval_")
      s3 == PI_Add(s2, "unclean_shutdowns_daily_count_", 1)
      s4 == PI_Add(s3, "unclean_shutdowns_weekly_count_", 1)
  IN PI_Add(s4, "any_crashes_weekly_count_", 1)

ProcessUncleanShutdown(s, ticks, wall, cpu) ==
  LET s1 == UpdateStats(s, ticks, wall, cpu)
      s2 == SendAndResetCrashIntervalSample(s1, "unclean_shutdown_interval_")
      s3 == PI_Add(s2, "unclean_shutdowns_daily_count_", 1)
      s4 == PI_Add(s3, "unclean_shutdowns_weekly_count_", 1)
      s5 == PI_Add(s4, "any_crashes_daily_count_", 1)
  IN PI_Add(s5, "any_crashes_weekly_count_", 1)

(***************************************************************************)
(* The boot markers.  CheckSystemCrash(file) returns whether the file      *)
(* exists and deletes it; MarkersAfterCheck is the files afterwards.       *)
(***************************************************************************)
MarkerFiles == { "kernel-crash-detected", "unclean-shutdown-detected" }
kKernelCrashDetectedFile == "kernel-crash-detected"
kUncleanShutdownDetectedFile == "unclean-shutdown-detected"

CheckSystemCrash(files, crash_file) == files[crash_file]
\* CheckSystemCrash without base::DeleteFile
MarkersAfterCheck_NotDeleted(files, crash_file) == files

MarkersAfterCheck(files, crash_file) ==
  IF files[crash_file] THEN [files EXCEPT ![crash_file] = FALSE] ELSE files

(***************************************************************************)
(* The OS version check of Run().                                          *)
(***************************************************************************)
\* the hashes the OS version reader can yield
OsVersions == { <<0, 7>>, <<65535, 65535>> }

GetOsVersionHash(hash) == IF testing_ THEN kTestingVersionHash ELSE hash

\* CheckVersionChange without version_cumulative_cpu_use_->Set(0)
CheckVersionChange_CpuNotReset(s, hash) ==
  LET version == UInt32ToInt32(GetOsVersionHash(hash)) IN
  IF PI_Get(s, "version_cycle_") # version
    THEN PI_Set(PI_Set(PI_Set(s, "version_cycle_", version),
                       "kernel_crashes_version_count_", 0),
                "version_cumulative_active_use_", 0)
    ELSE PI_Sync(s, "version_cycle_")

CheckVersionChange(s, hash) ==
  LET version == UInt32ToInt32(GetOsVersionHash(hash)) IN
  IF PI_Get(s, "version_cycle_") # version
    THEN PI_Set(PI_Set(PI_Set(PI_Set(s, "version_cycle_", version),
                              "kernel_crashes_version_count_", 0),
                       "version_cumulative_active_use_", 0),
                "version_cumulative_cpu_use_", 0)
    ELSE PI_Sync(s, "version_cycle_")


(***************************************************************************)
(* Meminfo.  A reading r of /proc/meminfo is what ReadFileToString makes   *)
(* of it: r.readable, and r.lines, the text as Tokenize splits it: the     *)
(* sequence of its lines, each the sequence of its tokens (strings).       *)
(***************************************************************************)
\* base::StringToInt on the tokens of the model: the decimal numerals of the
\* model convert to their value, any other token does not convert
NumeralValue ==
  ("0" :> 0) @@ ("40000" :> 40000) @@ ("50000" :> 50000) @@ ("80000" :> 80000)
  @@ ("100000" :> 100000) @@ ("150000" :> 150000) @@ ("200000" :> 200000)
  @@ ("300000" :> 300000) @@ ("400000" :> 400000) @@ ("500000" :> 500000)
  @@ ("600000" :> 600000) @@ ("2000000" :> 2000000)
  @@ ("5000000" :> 5000000) @@ ("20000000" :> 20000000)
  @@ ("25000000" :> 25000000) @@ ("30000000" :> 30000000)
StringToInt(token) ==
  IF token \in DOMAIN NumeralValue
    THEN [ok |-> TRUE, value |-> NumeralValue[token]]
    ELSE [ok |-> FALSE, value |-> 0]

\* what tokens[i] of a vector of fewer than i + 1 strings does is undefined:
\* the process is stopped by a signal, or the read yields the string that
\* lies there: one that is no label and no number, a label, or a number
OutOfRange ==
  { [trap |-> TRUE, token |-> ""] }
  \cup { [trap |-> FALSE, token |-> t] : t \in { "", "MemTotal", "0" } }

\* tokens[i - 1] of the code
Token(tokens, i, undefined) ==
  IF i <= Len(tokens) THEN [trap |-> FALSE, token |-> tokens[i]]
  ELSE undefined

\* the loop of FillMeminfo from line iline and field ifield on; value holds
\* the values of the fields found so far (0 for the others), and beyond
\* tells whether a token beyond the end of a line has been read
RECURSIVE FillMeminfoLoop(_, _, _, _, _, _, _)
FillMeminfoLoop(lines, match, iline, ifield, value, beyond, undefined) ==
  IF iline <= Len(lines) /\ ifield <= Len(match)
    THEN
      LET tokens == lines[iline]
          label == Token(tokens, 1, undefined)
          number == Token(tokens, 2, undefined)
      IN
      IF label.trap
        THEN [ok |-> FALSE, value |-> value, trap |-> TRUE, beyond |-> TRUE]
      ELSE IF match[ifield] = label.token
        THEN IF number.trap
               THEN [ok |-> FALSE, value |-> value, trap |-> TRUE,
                     beyond |-> TRUE]
             ELSE IF ~StringToInt(number.token).ok
               THEN [ok |-> FALSE, value |-> value, trap |-> FALSE,
                     beyond |-> beyond \/ Len(tokens) < 2]
               ELSE FillMeminfoLoop(lines, match, iline + 1, ifield + 1,
                      [value EXCEPT
                         ![ifield] = StringToInt(number.token).value],
                      beyond \/ Len(tokens) < 2, undefined)
        ELSE FillMeminfoLoop(lines, match, iline + 1, ifield, value,
                             beyond \/ Len(tokens) < 1, undefined)
    ELSE [ok |-> ifield > Len(match), value |-> value, trap |-> FALSE,
          beyond |-> beyond]

\* FillMeminfo starting its scan at the second line
FillMeminfo_FirstLineSkipped(lines, match, undefined) ==
  FillMeminfoLoop(lines, match, 2, 1, [i \in 1..Len(match) |-> 0], FALSE,
                  undefined)

\* FillMeminfo: whether it returned true, the values of the fields, whether
\* it stopped the process, and whether it read a token that does not exist;
\* undefined is the outcome of such a read, should there be one
FillMeminfo(lines, match, undefined) ==
  FillMeminfoLoop(lines, match, 1, 1, [i \in 1..Len(match) |-> 0], FALSE,
                  undefined)

kMeminfoOp_HistPercent == "HistPercent"
kMeminfoOp_HistLog == "HistLog"
kMeminfoOp_SwapTotal == "SwapTotal"
kMeminfoOp_SwapFree == "SwapFree"

MeminfoFields ==
  << [name |-> "MemTotal", match |-> "MemTotal", op |-> kMeminfoOp_HistPercent],
     [name |-> "MemFree", match |-> "MemFree", op |-> kMeminfoOp_HistPercent],
     [name |-> "Buffers", match |-> "Buffers", op |-> kMeminfoOp_HistPercent],
     [name |-> "Cached", match |-> "Cached", op |-> kMeminfoOp_HistPercent],
     [name |-> "Active", match |-> "Active", op |-> kMeminfoOp_HistPercent],
     [name |-> "Inactive", match |-> "Inactive",
      op |-> kMeminfoOp_HistPercent],
     [name |-> "ActiveAnon", match |-> "Active(anon)",
      op |-> kMeminfoOp_HistPercent],
     [name |-> "InactiveAnon", match |-> "Inactive(anon)",
      op |-> kMeminfoOp_HistPercent],
     [name |-> "ActiveFile", match |-> "Active(file)",
      op |-> kMeminfoOp_HistPercent],
     [name |-> "InactiveFile", match |-> "Inactive(file)",
      op |-> kMeminfoOp_HistPercent],
     [name |-> "Unevictable", match |-> "Unevictable",
      op |-> kMeminfoOp_HistLog],
     [name |-> "SwapTotal", match |-> "SwapTotal",
      op |-> kMeminfoOp_SwapTotal],
     [name |-> "SwapFree", match |-> "SwapFree", op |-> kMeminfoOp_SwapFree],
     [name |-> "AnonPages", match |-> "AnonPages",
      op |-> kMeminfoOp_HistPercent],
     [name |-> "Mapped", match |-> "Mapped", op |-> kMeminfoOp_HistPercent],
     [name |-> "Shmem", match |-> "Shmem", op |-> kMeminfoOp_HistLog],
     [name |-> "Slab", match |-> "Slab", op |-> kMeminfoOp_HistLog] >>
\* the labels FillMeminfo looks for, in the order of the fields
MeminfoMatch == [i \in 1..Len(MeminfoFields) |-> MeminfoFields[i].match]

\* the loop of ProcessMeminfo over fields i .. end; acc carries the daemon
\* state, the two swap locals and what an overflow does; the loop ends when
\* the process is stopped
RECURSIVE MeminfoLoop(_, _, _, _)
MeminfoLoop(acc, value, total_memory, i) ==
  Only({
    IF i > Len(MeminfoFields) \/ a.s.fatal THEN a
    ELSE
      LET f == MeminfoFields[i]
          metrics_name == <<"Platform.Meminfo", f.name>>
          product == Times100(value[i], a.undefined)
          next ==
            CASE f.op = kMeminfoOp_HistPercent ->
                   IF product.trap THEN [a EXCEPT !.s.fatal = TRUE]
                   ELSE [a EXCEPT !.s = SendLinearSample(@, metrics_name,
                           CDiv(product.value, total_memory),
                           100, 101)]
              [] f.op = kMeminfoOp_HistLog ->
                   [a EXCEPT !.s = SendSample(@, metrics_name, value[i])]
              [] f.op = kMeminfoOp_SwapTotal ->
                   \* no break: falls through into the SwapFree case
                   [a EXCEPT !.swap_total = value[i], !.swap_free = value[i]]
              [] f.op = kMeminfoOp_SwapFree ->
                   [a EXCEPT !.swap_free = value[i]]
      IN MeminfoLoop(next, value, total_memory, i + 1)
    : a \in {acc} })

\* ProcessMeminfo: its result (whether it returned true) and its effect
ProcessMeminfoOk(r) ==
  LET fields == FillMeminfo(r.lines, MeminfoMatch, r.out_of_range)
  IN fields.ok /\ fields.value[1] # 0

\* ProcessMeminfo reporting the percentage of swap that is free
ProcessMeminfo_SwapPercentOfFree(s, r) ==
  IF FillMeminfo(r.lines, MeminfoMatch, r.out_of_range).trap
    THEN [s EXCEPT !.fatal = TRUE]
  ELSE IF ~ProcessMeminfoOk(r) THEN s
  ELSE
    LET fields == FillMeminfo(r.lines, MeminfoMatch, r.out_of_range)
        total_memory == fields.value[1]
        acc == MeminfoLoop([s |-> s, swap_total |-> 0, swap_free |-> 0,
                            undefined |-> r.undefined],
                           fields.value, total_memory, 2)
    IN IF acc.s.fatal THEN acc.s
       ELSE IF acc.swap_total > 0
         THEN LET swap_used == acc.swap_total - acc.swap_free
                  product == Times100(acc.swap_free, r.undefined)
                  swap_used_percent == CDiv(product.value, acc.swap_total)
              IN IF product.trap THEN [acc.s EXCEPT !.fatal = TRUE]
                 ELSE SendLinearSample(
                   SendSample(acc.s, "Platform.MeminfoSwapUsed", swap_used),
                   "Platform.MeminfoSwapUsed.Percent", swap_used_percent,
                   100, 101)
         ELSE acc.s

ProcessMeminfo(s, r) ==
  IF FillMeminfo(r.lines, MeminfoMatch, r.out_of_range).trap
    THEN [s EXCEPT !.fatal = TRUE]
  ELSE IF ~ProcessMeminfoOk(r) THEN s
  ELSE
    LET fields == FillMeminfo(r.lines, MeminfoMatch, r.out_of_range)
        total_memory == fields.value[1]
        acc == MeminfoLoop([s |-> s, swap_total |-> 0, swap_free |-> 0,
                            undefined |-> r.undefined],
                           fields.value, total_memory, 2)
    IN IF acc.s.fatal THEN acc.s
       ELSE IF acc.swap_total > 0
         THEN LET swap_used == acc.swap_total - acc.swap_free
                  product == Times100(swap_used, r.undefined)
                  swap_used_percent == CDiv(product.value, acc.swap_total)
              IN IF product.trap THEN [acc.s EXCEPT !.fatal = TRUE]
                 ELSE SendLinearSample(
                   SendSample(acc.s, "Platform.MeminfoSwapUsed", swap_used),
                   "Platform.MeminfoSwapUsed.Percent", swap_used_percent,
                   100, 101)
         ELSE acc.s

\* PostDelayedTask of one of the three callbacks: one more pending task of
\* the callback, with the delay it was posted with (the meminfo and memuse
\* delays are in seconds, the stats delay in milliseconds)
PostDelayedTask(s, callback, delay) ==
  [s EXCEPT !.pending[callback] = @ + 1, !.delay[callback] = delay]

ScheduleMeminfoCallback(s, wait) ==
  IF testing_ THEN s ELSE PostDelayedTask(s, "MeminfoCallback", wait)

\* MeminfoCallback re-arming whatever ProcessMeminfo returned
MeminfoCallback_AlwaysRearm(s, wait, r) ==
  IF ~r.readable THEN s
  ELSE Only({ IF s1.fatal THEN s1
              ELSE PostDelayedTask(s1, "MeminfoCallback", wait) :
              s1 \in { ProcessMeminfo(s, r) } })

\* wait is the argument the task was bound with
MeminfoCallback(s, wait, r) ==
  IF ~r.readable THEN s
  ELSE Only({ IF ProcessMeminfoOk(r) /\ ~s1.fatal
                THEN PostDelayedTask(s1, "MeminfoCallback", wait)
                ELSE s1 :
              s1 \in { ProcessMeminfo(s, r) } })

(***************************************************************************)
(* Zram.  A file of the zram directory is unreadable, or has a content;    *)
(* content is what TrimWhitespaceASCII leaves of it.  The values stay far  *)
(* below 2^31, so that the only uint64_t operation that can wrap is the    *)
(* subtraction.                                                            *)
(***************************************************************************)
Uint64Value ==
  ("0" :> 0) @@ ("1" :> 1) @@ ("256" :> 256) @@ ("4096" :> 4096)
  @@ ("1048575" :> 1048575) @@ ("1048576" :> 1048576)
  @@ ("2097152" :> 2097152) @@ ("4194304" :> 4194304)
  @@ ("8388608" :> 8388608)

StringToUint64(content) ==
  IF content \in DOMAIN Uint64Value
    THEN [ok |-> TRUE, value |-> Uint64Value[content]]
    ELSE [ok |-> FALSE, value |-> 0]

ReadFileToUint64(file) ==
  IF ~file.readable THEN [ok |-> FALSE, value |-> 0]
  ELSE StringToUint64(file.content)

page_size == 4096
MiB == 1048576

\* (a - b) >> 20 of two uint64_t, assigned to an int: when a < b the
\* difference wraps to 2^64 - (b - a), whose shift is
\* 2^44 - ceiling((b - a) / 2^20), of which the int keeps the low 32 bits
ShiftedDifference(a, b) ==
  IF a >= b THEN (a - b) \div MiB
  ELSE -(((b - a) + (MiB - 1)) \div MiB)

\* what a uint64_t division by 0 does is undefined: the process is stopped
\* by a signal, or the division yields some value
DivisionByZero == [trap : BOOLEAN, value : { 0, -1 }]

\* ReportZram leaving the zero pages out of the original size
ReportZram_ZeroPagesLeftOut(s, zram_dir, undefined) ==
  LET compr == ReadFileToUint64(zram_dir.compr_data_size)
      orig == ReadFileToUint64(zram_dir.orig_data_size)
      zero == ReadFileToUint64(zram_dir.zero_pages)
  IN IF ~compr.ok \/ ~orig.ok \/ ~zero.ok THEN s
     ELSE IF orig.value = 0 /\ undefined.trap THEN [s EXCEPT !.fatal = TRUE]
     ELSE
       LET compr_data_size_mb == compr.value \div MiB
           savings_mb == ShiftedDifference(orig.value, compr.value)
           zero_ratio_percent ==
             IF orig.value = 0 THEN undefined.value
             ELSE (zero.value * page_size * 100) \div orig.value
           s1 == SendSample(s, "Platform.ZramCompressedSize",
                            compr_data_size_mb)
           s2 == SendSample(s1, "Platform.ZramSavings", savings_mb)
           s3 == IF compr_data_size_mb >= 1
                   THEN SendSample(s2, "Platform.ZramCompressionRatioPercent",
                                   (orig.value * 100) \div compr.value)
                   ELSE s2
           s4 == SendSample(s3, "Platform.ZramZeroPages", zero.value)
       IN SendSample(s4, "Platform.ZramZeroRatioPercent", zero_ratio_percent)

\* zram_dir holds the three files; undefined is the outcome of a division
\* by 0, should there be one
ReportZram(s, zram_dir, undefined) ==
  LET compr == ReadFileToUint64(zram_dir.compr_data_size)
      orig == ReadFileToUint64(zram_dir.orig_data_size)
      zero == ReadFileToUint64(zram_dir.zero_pages)
  IN IF ~compr.ok \/ ~orig.ok \/ ~zero.ok THEN s
     ELSE
       LET orig_data_size == orig.value + zero.value * page_size IN
       IF orig_data_size = 0 /\ undefined.trap THEN [s EXCEPT !.fatal = TRUE]
       ELSE
         LET compr_data_size_mb == compr.value \div MiB
             savings_mb == ShiftedDifference(orig_data_size, compr.value)
             zero_ratio_percent ==
               IF orig_data_size = 0 THEN undefined.value
               ELSE (zero.value * page_size * 100) \div orig_data_size
             s1 == SendSample(s, "Platform.ZramCompressedSize",
                              compr_data_size_mb)
             s2 == SendSample(s1, "Platform.ZramSavings", savings_mb)
             s3 == IF compr_data_size_mb >= 1
                     THEN SendSample(s2,
                            "Platform.ZramCompressionRatioPercent",
                            (orig_data_size * 100) \div compr.value)
                     ELSE s2
             s4 == SendSample(s3, "Platform.ZramZeroPages", zero.value)
         IN SendSample(s4, "Platform.ZramZeroRatioPercent",
                       zero_ratio_percent)

(***************************************************************************)
(* Memory use at age.  Times are in units of 1 / TimeResolution second.    *)
(***************************************************************************)
TimeResolution == 2
\* ceil of a time difference, in whole seconds
Ceil(x) == -((-x) \div TimeResolution)

ScheduleMemuseCallback(s, interval) ==
  IF testing_ THEN s ELSE PostDelayedTask(s, "MemuseCallback", interval)

\* the labels of the fields of ProcessMemuse
MemuseMatch == << "MemTotal", "Active(anon)", "Inactive(anon)" >>

ProcessMemuseOk(r) ==
  LET fields == FillMeminfo(r.lines, MemuseMatch, r.out_of_range)
  IN fields.ok /\ fields.value[1] # 0

ProcessMemuse(s, r) ==
  IF FillMeminfo(r.lines, MemuseMatch, r.out_of_range).trap
    THEN [s EXCEPT !.fatal = TRUE]
  ELSE IF ~ProcessMemuseOk(r) THEN s
  ELSE LET fields == FillMeminfo(r.lines, MemuseMatch, r.out_of_range)
           total == fields.value[1]
           active_anon == fields.value[2]
           inactive_anon == fields.value[3]
           sum == Plus(active_anon, inactive_anon, r.undefined)
           product == Times100(sum.value, r.undefined)
       IN IF sum.trap \/ product.trap THEN [s EXCEPT !.fatal = TRUE]
          ELSE SendLinearSample(s,
                 <<"Platform.MemuseAnon", s.memuse_interval_index_>>,
                 CDiv(product.value, total),
                 100, 101)

MemuseCallbackWorkOk(r) == r.readable /\ ProcessMemuseOk(r)
MemuseCallbackWork(s, r) == IF ~r.readable THEN s ELSE ProcessMemuse(s, r)

\* MemuseCallback rounding the remaining time down
MemuseCallback_RoundedDown(s, now, r) ==
  LET remaining_time == (s.memuse_final_time_ - now) \div TimeResolution IN
  IF remaining_time > 0
    THEN ScheduleMemuseCallback(s, remaining_time)
    ELSE
      LET s1 == MemuseCallbackWork(s, r) IN
      IF MemuseCallbackWorkOk(r)
         /\ ~s1.fatal
         /\ s.memuse_interval_index_ < Len(kMemuseIntervals)
        THEN
          LET interval == kMemuseIntervals[s.memuse_interval_index_ + 1]
              s2 == [s1 EXCEPT
                       !.memuse_interval_index_ = @ + 1,
                       !.memuse_final_time_ = now + interval * TimeResolution]
          IN ScheduleMemuseCallback(s2, interval)
        ELSE s1

MemuseCallback(s, now, r) ==
  LET remaining_time == Ceil(s.memuse_final_time_ - now) IN
  IF remaining_time > 0
    THEN ScheduleMemuseCallback(s, remaining_time)
    ELSE
      LET s1 == MemuseCallbackWork(s, r) IN
      IF MemuseCallbackWorkOk(r)
         /\ ~s1.fatal
         /\ s.memuse_interval_index_ < Len(kMemuseIntervals)
        THEN
          LET interval == kMemuseIntervals[s.memuse_interval_index_ + 1]
              s2 == [s1 EXCEPT
                       !.memuse_interval_index_ = @ + 1,
                       !.memuse_final_time_ = now + interval * TimeResolution]
          IN ScheduleMemuseCallback(s2, interval)
        ELSE s1


(***************************************************************************)
(* D-Bus messages seen by the filter function.                             *)
(***************************************************************************)
kCrashReporterInterface == "org.chromium.CrashReporter"
kCrashReporterUserCrashSignal == "UserCrash"

Messages ==
  { [type |-> "signal", interface |-> kCrashReporterInterface,
     member |-> kCrashReporterUserCrashSignal],
    [type |-> "signal", interface |-> kCrashReporterInterface,
     member |-> "KernelCrash"],
    [type |-> "signal", interface |-> "org.freedesktop.DBus",
     member |-> "NameAcquired"],
    [type |-> "method_return", interface |-> "", member |-> ""] }

MessageFilter(s, message, ticks, wall, cpu) ==
  IF message.type # "signal" THEN s
  ELSE IF message.interface = kCrashReporterInterface
    THEN IF message.member # kCrashReporterUserCrashSignal
           THEN [s EXCEPT !.fatal = TRUE]
           ELSE ProcessUserCrash(s, ticks, wall, cpu)
    ELSE s

(***************************************************************************)
(* The daemon object.                                                      *)
(***************************************************************************)
Callbacks == { "HandleUpdateStatsTimeout", "MeminfoCallback", "MemuseCallback" }

\* a start that finds the backing file of daily_cycle_ empty
NewDaemon_CycleLost(disk) ==
  [ value |-> [n \in Counters |-> 0],
    synced |-> [n \in Counters |-> FALSE],
    disk |-> [disk EXCEPT !["daily_cycle_"] = 0],
    last_update_stats_time_ |-> 0,
    latest_cpu_use_microseconds_ |-> 0,
    memuse_final_time_ |-> 0,
    memuse_interval_index_ |-> 0,
    pending |-> [c \in Callbacks |-> 0],
    delay |-> [c \in Callbacks |-> 0],
    sent |-> << >>,
    fatal |-> FALSE ]

\* the object after the constructor and Init(): no counter read yet
NewDaemon(disk) ==
  [ value |-> [n \in Counters |-> 0],
    synced |-> [n \in Counters |-> FALSE],
    disk |-> disk,
    last_update_stats_time_ |-> 0,
    latest_cpu_use_microseconds_ |-> 0,
    memuse_final_time_ |-> 0,
    memuse_interval_index_ |-> 0,
    pending |-> [c \in Callbacks |-> 0],
    delay |-> [c \in Callbacks |-> 0],
    sent |-> << >>,
    fatal |-> FALSE ]

\* a handler starts with nothing sent
Begin(s) == [s EXCEPT !.sent = << >>]
\* the message loop takes a pending task of the callback off its queue
Take(s, callback) == [Begin(s) EXCEPT !.pending[callback] = @ - 1]

\* OnInit scheduling the meminfo callback a second time
OnInit_MeminfoPostedTwice(s, active, cpu) ==
  LET s0 == ScheduleMeminfoCallback(s, kMetricMeminfoInterval)
      s1 == ScheduleMeminfoCallback(s0, kMetricMeminfoInterval)
      s2 == [s1 EXCEPT !.memuse_final_time_ =
                         active + kMemuseIntervals[1] * TimeResolution]
      s3 == ScheduleMemuseCallback(s2, kMemuseIntervals[1])
  IN IF testing_ THEN s3
     ELSE PostDelayedTask(
            [s3 EXCEPT !.latest_cpu_use_microseconds_ = cpu],
            "HandleUpdateStatsTimeout", kUpdateStatsIntervalMs)

OnInit(s, active, cpu) ==
  LET s1 == ScheduleMeminfoCallback(s, kMetricMeminfoInterval)
      s2 == [s1 EXCEPT !.memuse_final_time_ =
                         active + kMemuseIntervals[1] * TimeResolution]
      s3 == ScheduleMemuseCallback(s2, kMemuseIntervals[1])
  IN IF testing_ THEN s3
     ELSE PostDelayedTask(
            [s3 EXCEPT !.latest_cpu_use_microseconds_ = cpu],
            "HandleUpdateStatsTimeout", kUpdateStatsIntervalMs)

\* HandleUpdateStatsTimeout without the PostDelayedTask
HandleUpdateStatsTimeout_NotRearmed(s, ticks, wall, cpu) ==
  UpdateStats(s, ticks, wall, cpu)

HandleUpdateStatsTimeout(s, ticks, wall, cpu) ==
  PostDelayedTask(UpdateStats(s, ticks, wall, cpu),
                  "HandleUpdateStatsTimeout", kUpdateStatsIntervalMs)

(***************************************************************************)
(* History variables: they record what happened and steer nothing.         *)
(***************************************************************************)
\*   credit[f]      markers f written, minus crash accounting passes for f
\*   starts         daemon starts so far
\*   version_checks OS version checks of this start
\*   updates        UpdateStats calls of this start (2: two or more)
\*   update_day     the day index of the latest UpdateStats call (-1: none)
\*   folded[n]      the elapsed seconds UpdateStats calls folded in since the
\*                  latest crash of the kind of interval counter n
\*   memuse_samples, memuse_last   memuse samples of this start, and the
\*                  active time of the latest
\*   memuse_failed, meminfo_failed a read or parse of this start failed
\*   parsed, raw    the latest firing of a meminfo or memuse callback read
\*                  the file, and the lines of the latest file read
\*   reads          1 once a callback has read the file
\*   start_ticks    the monotonic clock when the daemon was started
\*   added          the sum of the elapsed seconds the UpdateStats calls of
\*                  this start added
\*   zram           the zram directory of the latest ReportZram call
HistInit ==
  [ credit |-> [f \in MarkerFiles |-> 0],
    starts |-> 0,
    version_checks |-> 0,
    updates |-> 0,
    update_day |-> -1,
    folded |-> [n \in IntervalCounters |-> 0],
    memuse_samples |-> 0,
    memuse_last |-> -1,
    memuse_failed |-> FALSE,
    meminfo_failed |-> FALSE,
    parsed |-> FALSE,
    reads |-> 0,
    raw |-> << >>,
    start_ticks |-> 0,
    added |-> 0,
    zram |-> << >> ]

\* an UpdateStats call folded elapsed seconds in; the handler of a crash of
\* the kind of counter n (if any) then restarted n's interval
Fold(h, elapsed, day, n) ==
  [h EXCEPT
     !.updates = IF @ < 2 THEN @ + 1 ELSE @,
     !.added = @ + elapsed,
     !.update_day = day,
     !.folded =
       [k \in IntervalCounters |-> IF k = n THEN 0 ELSE h.folded[k] + elapsed]]


(***************************************************************************)
(* Initial state: the device has booted, nothing is stored, the daemon is  *)
(* not running yet.                                                        *)
(***************************************************************************)
Init ==
  /\ pc = "stopped"
  /\ d = NewDaemon([n \in Counters |-> 0])
  /\ marker = [f \in MarkerFiles |-> FALSE]
  /\ now_ticks = 0
  /\ wall_time = FirstDay * kSecondsPerDay + WallStep
  /\ cpu_use = 0
  /\ os_version = <<0, 7>>
  /\ active_time = 0
  /\ events = 0
  /\ last = "boot"
  /\ hist = HistInit

\* one more event
Event == events < MaxEvents /\ events' = events + 1

(***************************************************************************)
(* The environment: clocks, the crash reporter's boot markers, OS updates. *)
(***************************************************************************)
\* a step of the environment: no handler ran, nothing was sent
Elapse == d' = Begin(d) /\ last' = "environment"

\* the device is awake for half a second, and uses the CPU
Tick ==
  /\ pc \in {"stopped", "loop"}
  /\ Event
  /\ now_ticks' = now_ticks + ClockStep
  /\ cpu_use' = cpu_use + CpuStep
  /\ Elapse
  /\ UNCHANGED << pc, marker, wall_time, os_version, active_time, hist >>

\* half a day passes
WallAdvance ==
  /\ pc \in {"stopped", "loop"}
  /\ Event
  /\ wall_time' = wall_time + WallStep
  /\ Elapse
  /\ UNCHANGED << pc, marker, now_ticks, cpu_use, os_version, active_time,
                  hist >>

\* the crash reporter leaves a marker while the daemon is not running
WriteMarker ==
  /\ pc = "stopped"
  /\ Event
  /\ \E f \in MarkerFiles :
       /\ ~marker[f]
       /\ marker' = [marker EXCEPT ![f] = TRUE]
       /\ hist' = [hist EXCEPT !.credit[f] = @ + 1]
  /\ Elapse
  /\ UNCHANGED << pc, now_ticks, wall_time, cpu_use, os_version, active_time >>

OsUpdate ==
  /\ pc = "stopped"
  /\ Event
  /\ \E v \in OsVersions \ {os_version} : os_version' = v
  /\ Elapse
  /\ UNCHANGED << pc, marker, now_ticks, wall_time, cpu_use, active_time,
                  hist >>

(***************************************************************************)
(* The daemon: start, the steps of Run(), the handlers of the loop.        *)
(***************************************************************************)
DaemonBegin ==
  /\ pc \in {"stopped", "aborted"}
  /\ pc' = "kernel"
  /\ d' = NewDaemon(d.disk)
  /\ hist' = [hist EXCEPT !.starts = @ + 1, !.updates = 0,
                          !.version_checks = 0, !.memuse_samples = 0,
                          !.memuse_last = -1, !.memuse_failed = FALSE,
                          !.meminfo_failed = FALSE,
                          !.start_ticks = now_ticks, !.added = 0]
  /\ last' = "DaemonStart"
  /\ UNCHANGED << marker, now_ticks, wall_time, cpu_use, os_version,
                  active_time >>

DaemonStart == Event /\ DaemonBegin

\* the steps of Run() follow the start at once: they are no events of their own
RunKernelCrash ==
  /\ pc = "kernel"
  /\ pc' = "unclean"
  /\ marker' = MarkersAfterCheck(marker, kKernelCrashDetectedFile)
  /\ IF CheckSystemCrash(marker, kKernelCrashDetectedFile)
       THEN /\ d' = ProcessKernelCrash(Begin(d), now_ticks, wall_time, cpu_use)
            /\ hist' = [Fold(hist, ElapsedSeconds(d, now_ticks), InDays(wall_time),
                             "kernel_crash_interval_")
                          EXCEPT !.credit[kKernelCrashDetectedFile] = @ - 1]
            /\ last' = "ProcessKernelCrash"
       ELSE /\ d' = Begin(d)
            /\ hist' = hist
            /\ last' = "RunKernelCrash"
  /\ UNCHANGED << now_ticks, wall_time, cpu_use, os_version, active_time,
                  events >>

RunUncleanShutdown ==
  /\ pc = "unclean"
  /\ pc' = "version"
  /\ marker' = MarkersAfterCheck(marker, kUncleanShutdownDetectedFile)
  /\ IF CheckSystemCrash(marker, kUncleanShutdownDetectedFile)
       THEN /\ d' = ProcessUncleanShutdown(Begin(d), now_ticks, wall_time,
                                           cpu_use)
            /\ hist' = [Fold(hist, ElapsedSeconds(d, now_ticks), InDays(wall_time),
                             "unclean_shutdown_interval_")
                          EXCEPT !.credit[kUncleanShutdownDetectedFile] = @ - 1]
            /\ last' = "ProcessUncleanShutdown"
       ELSE /\ d' = Begin(d)
            /\ hist' = hist
            /\ last' = "RunUncleanShutdown"
  /\ UNCHANGED << now_ticks, wall_time, cpu_use, os_version, active_time,
                  events >>

\* Run() going on to the loop without the version check
RunVersionCheck_Skipped ==
  /\ pc = "version"
  /\ pc' = "oninit"
  /\ d' = Begin(d)
  /\ last' = "Run"
  /\ UNCHANGED << marker, now_ticks, wall_time, cpu_use, os_version,
                  active_time, events, hist >>

RunVersionCheck ==
  /\ pc = "version"
  /\ pc' = "oninit"
  /\ d' = CheckVersionChange(Begin(d), os_version)
  /\ hist' = [hist EXCEPT !.version_checks = @ + 1]
  /\ last' = "CheckVersionChange"
  /\ UNCHANGED << marker, now_ticks, wall_time, cpu_use, os_version,
                  active_time, events >>

RunOnInit ==
  /\ pc = "oninit"
  /\ pc' = "loop"
  /\ d' = OnInit(Begin(d), active_time, cpu_use)
  /\ last' = "OnInit"
  /\ UNCHANGED << marker, now_ticks, wall_time, cpu_use, os_version,
                  active_time, events, hist >>

\* the stats timer fires
StatsFire ==
  /\ pc = "loop"
  /\ d.pending["HandleUpdateStatsTimeout"] > 0
  /\ d' = HandleUpdateStatsTimeout(Take(d, "HandleUpdateStatsTimeout"),
                                   now_ticks, wall_time, cpu_use)
  /\ hist' = Fold(hist, ElapsedSeconds(d, now_ticks), InDays(wall_time), "")
  /\ last' = "HandleUpdateStatsTimeout"
  /\ UNCHANGED << pc, marker, now_ticks, wall_time, cpu_use, os_version,
                  active_time >>

StatsTimeout == Event /\ StatsFire

DBusMessage ==
  /\ pc = "loop"
  /\ Event
  /\ \E message \in Messages :
       LET crash == /\ message.type = "signal"
                    /\ message.interface = kCrashReporterInterface
                    /\ message.member = kCrashReporterUserCrashSignal
       IN /\ d' = MessageFilter(Begin(d), message, now_ticks, wall_time,
                                cpu_use)
          /\ pc' = IF d'.fatal THEN "aborted" ELSE pc
          /\ hist' = IF crash
                       THEN Fold(hist, ElapsedSeconds(d, now_ticks), InDays(wall_time),
                                 "user_crash_interval_")
                       ELSE hist
          /\ last' = IF crash THEN "ProcessUserCrash" ELSE "MessageFilter"
  /\ UNCHANGED << marker, now_ticks, wall_time, cpu_use, os_version,
                  active_time >>

\* the process ends between two handlers; the backing files stay
Shutdown ==
  /\ pc = "loop"
  /\ Event
  /\ pc' = "stopped"
  /\ d' = NewDaemon(d.disk)
  /\ last' = "Shutdown"
  /\ UNCHANGED << marker, now_ticks, wall_time, cpu_use, os_version,
                  active_time, hist >>

Next ==
  \/ Tick
  \/ WallAdvance
  \/ WriteMarker
  \/ OsUpdate
  \/ DaemonStart
  \/ RunKernelCrash
  \/ RunUncleanShutdown
  \/ RunVersionCheck
  \/ RunOnInit
  \/ StatsTimeout
  \/ DBusMessage
  \/ Shutdown

Spec == Init /\ [][Next]_vars


(***************************************************************************)
(* The scheduler: one run of the daemon with its three callbacks and the   *)
(* active-time clock; the other clocks stand still.                        *)
(***************************************************************************)
\* a line "label:   numeral kB" of /proc/meminfo, as its tokens
Line(label, numeral) == << label, numeral, "kB" >>
\* a /proc/meminfo: the fields of the schemas in the kernel's order, among
\* lines the schemas do not ask for
ProcMeminfo ==
  << Line("MemTotal", "2000000"), Line("MemFree", "500000"),
     Line("Buffers", "100000"), Line("Cached", "400000"),
     Line("SwapCached", "0"), Line("Active", "600000"),
     Line("Inactive", "300000"), Line("Active(anon)", "300000"),
     Line("Inactive(anon)", "100000"), Line("Active(file)", "300000"),
     Line("Inactive(file)", "200000"), Line("Unevictable", "0"),
     Line("Mlocked", "0"), Line("SwapTotal", "100000"),
     Line("SwapFree", "40000"), Line("Dirty", "0"),
     Line("AnonPages", "400000"), Line("Mapped", "150000"),
     Line("Shmem", "50000"), Line("Slab", "80000") >>

Unreadable == [readable |-> FALSE, lines |-> << >>]
Readable(lines) == [readable |-> TRUE, lines |-> lines]

\* what a reading of /proc/meminfo can be to MeminfoCallback: unreadable,
\* empty, with a total memory of 0, or as it should be
MeminfoReadings ==
  { Unreadable,
    Readable(<< >>),
    Readable([ProcMeminfo EXCEPT ![1] = Line("MemTotal", "0")]),
    Readable(ProcMeminfo) }

\* and to MemuseCallbackWork, which reads the same file
MemuseReadings == MeminfoReadings

\* Active time passes while a memuse callback is pending: up to shortly
\* before, exactly to, or just past the time the daemon waits for.
ActiveAdvance ==
  /\ pc = "loop"
  /\ d.pending["MemuseCallback"] > 0
  /\ \E t \in { d.memuse_final_time_ - TimeResolution - 1,
                d.memuse_final_time_ - 1,
                d.memuse_final_time_,
                d.memuse_final_time_ + 1 } :
       /\ t > active_time
       /\ active_time' = t
  /\ Elapse
  /\ UNCHANGED << pc, marker, now_ticks, wall_time, cpu_use, os_version,
                  events, hist >>

\* the outcomes of the reads beyond the end of a line of the file: there is
\* one to draw only where a line has fewer than two tokens
OutOfRangeOf(lines) ==
  IF \E i \in 1..Len(lines) : Len(lines[i]) < 2 THEN OutOfRange
  ELSE { [trap |-> TRUE, token |-> ""] }

\* the meminfo callback fires and reads one of the readings
MeminfoFireOn(readings) ==
  /\ pc = "loop"
  /\ d.pending["MeminfoCallback"] > 0
  /\ \E file \in readings, undefined \in SignedOverflow :
     \E out_of_range \in OutOfRangeOf(file.lines) :
       LET r == [readable |-> file.readable, lines |-> file.lines,
                 undefined |-> undefined, out_of_range |-> out_of_range] IN
       /\ d' = MeminfoCallback(Take(d, "MeminfoCallback"),
                               d.delay["MeminfoCallback"], r)
       /\ pc' = IF d'.fatal THEN "aborted" ELSE pc
       /\ hist' = [hist EXCEPT
            !.meminfo_failed = @ \/ ~(r.readable /\ ProcessMeminfoOk(r)),
            !.parsed = r.readable,
            !.reads = IF r.readable THEN 1 ELSE @,
            !.raw = IF r.readable THEN r.lines ELSE @]
  /\ last' = "MeminfoCallback"
  /\ UNCHANGED << marker, now_ticks, wall_time, cpu_use, os_version,
                  active_time, events >>

MeminfoFire == MeminfoFireOn(MeminfoReadings)

\* the memuse callback fires; it reads the file once its time has come
MemuseFireOn(readings) ==
  /\ pc = "loop"
  /\ d.pending["MemuseCallback"] > 0
  /\ \E file \in readings, undefined \in SignedOverflow :
     \E out_of_range \in OutOfRangeOf(file.lines) :
       LET r == [readable |-> file.readable, lines |-> file.lines,
                 undefined |-> undefined, out_of_range |-> out_of_range]
           due == Ceil(d.memuse_final_time_ - active_time) <= 0 IN
       /\ d' = MemuseCallback(Take(d, "MemuseCallback"), active_time, r)
       /\ pc' = IF d'.fatal THEN "aborted" ELSE pc
       /\ hist' = [hist EXCEPT
            !.memuse_samples = @ + Len(d'.sent),
            !.memuse_last = IF d'.sent # << >> THEN active_time ELSE @,
            !.memuse_failed =
               @ \/ (active_time >= d.memuse_final_time_
                     /\ ~MemuseCallbackWorkOk(r)),
            !.parsed = due /\ r.readable,
            !.reads = IF due /\ r.readable THEN 1 ELSE @,
            !.raw = IF due /\ r.readable THEN r.lines ELSE @]
  /\ last' = "MemuseCallback"
  /\ UNCHANGED << marker, now_ticks, wall_time, cpu_use, os_version,
                  active_time, events >>

MemuseFire == MemuseFireOn(MemuseReadings)

NextSched ==
  \/ DaemonBegin /\ UNCHANGED events
  \/ RunKernelCrash
  \/ RunUncleanShutdown
  \/ RunVersionCheck
  \/ RunOnInit
  \/ ActiveAdvance
  \/ MeminfoFire
  \/ MemuseFire
  \/ StatsFire /\ UNCHANGED events

SpecSched == Init /\ [][NextSched]_vars

\* the message loop runs a posted meminfo task once its delay has passed
SpecSchedFair == SpecSched /\ WF_vars(MeminfoFire)

\* and a posted stats task
SpecStatsFair == SpecSched /\ WF_vars(StatsFire /\ UNCHANGED events)


(***************************************************************************)
(* The parsers: one run of the daemon whose meminfo and memuse callbacks   *)
(* read files of many shapes.                                              *)
(***************************************************************************)
\* the longest file the memuse callback reads, in lines
MaxLines == 4

\* the lines of those files: the three fields of ProcessMemuse and a line
\* it does not ask for
MemuseLines ==
  { Line("MemTotal", "2000000"), Line("Active(anon)", "300000"),
    Line("Inactive(anon)", "100000"), Line("MemFree", "500000") }
MemuseDumps == UNION { [1..n -> MemuseLines] : n \in 0..MaxLines }

\* the values SwapTotal and SwapFree take
SwapNumerals == { "0", "40000", "100000" }
\* /proc/meminfo, and what becomes of it when a line is lost, when a value
\* is no number, when two lines change places, when total memory is 0, and
\* with other values of SwapTotal (line 14) and SwapFree (line 15)
MeminfoDumps ==
  { ProcMeminfo, [ProcMeminfo EXCEPT ![1] = Line("MemTotal", "0")] }
  \cup { SubSeq(ProcMeminfo, 1, i - 1)
           \o SubSeq(ProcMeminfo, i + 1, Len(ProcMeminfo)) :
         i \in 1..Len(ProcMeminfo) }
  \cup { [ProcMeminfo EXCEPT ![i][2] = "lots"] : i \in 1..Len(ProcMeminfo) }
  \cup { [ProcMeminfo EXCEPT ![i] = ProcMeminfo[i + 1],
                             ![i + 1] = ProcMeminfo[i]] :
         i \in 1..(Len(ProcMeminfo) - 1) }
  \cup { [ProcMeminfo EXCEPT ![14][2] = t, ![15][2] = f] :
         t \in SwapNumerals, f \in SwapNumerals }

\* the file is one of these, and stays as a callback has read it
ParseReadings ==
  IF hist.reads = 0
    THEN { Readable(lines) : lines \in MeminfoDumps \cup MemuseDumps }
    ELSE { Readable(hist.raw) }

MeminfoParse == MeminfoFireOn(ParseReadings)
MemuseParse == MemuseFireOn(ParseReadings)

\* active time passes until a callback has read the file
ParseAdvance == hist.reads = 0 /\ ActiveAdvance

NextParse ==
  \/ DaemonBegin /\ UNCHANGED events
  \/ RunKernelCrash
  \/ RunUncleanShutdown
  \/ RunVersionCheck
  \/ RunOnInit
  \/ ParseAdvance
  \/ MeminfoParse
  \/ MemuseParse

SpecParse == Init /\ [][NextParse]_vars


(***************************************************************************)
(* Large memories: one run of the daemon on a machine with 30000000 kB of  *)
(* memory, where a hundred times a field need not fit an int.              *)
(***************************************************************************)
LargeDumps ==
  { [ProcMeminfo EXCEPT ![1][2] = "30000000", ![2][2] = free] :
    free \in { "500000", "20000000", "25000000", "30000000" } }
  \cup { << Line("MemTotal", "30000000"), Line("Active(anon)", active),
            Line("Inactive(anon)", inactive) >> :
          active \in { "300000", "5000000", "20000000" },
          inactive \in { "100000", "5000000" } }

\* the file is one of these, and stays as a callback has read it
LargeReadings ==
  IF hist.reads = 0
    THEN { Readable(lines) : lines \in LargeDumps }
    ELSE { Readable(hist.raw) }

MeminfoLarge == MeminfoFireOn(LargeReadings)
MemuseLarge == MemuseFireOn(LargeReadings)

\* one run: a daemon that was stopped is not started again
NextLarge ==
  \/ pc = "stopped" /\ DaemonBegin /\ UNCHANGED events
  \/ RunKernelCrash
  \/ RunUncleanShutdown
  \/ RunVersionCheck
  \/ RunOnInit
  \/ ParseAdvance
  \/ MeminfoLarge
  \/ MemuseLarge

SpecLarge == Init /\ [][NextLarge]_vars


(***************************************************************************)
(* Short lines: one run of the daemon on files with lines that Tokenize    *)
(* splits on ':' and ' ' into no token at all (a line of spaces) or into a *)
(* label without a value.                                                  *)
(***************************************************************************)
\* the three fields of ProcessMemuse, and the first field of ProcessMeminfo
MemuseFile ==
  << Line("MemTotal", "2000000"), Line("Active(anon)", "300000"),
     Line("Inactive(anon)", "100000") >>
\* that file, and what becomes of it when a line loses its value or all of
\* its tokens, and when a line of no token comes between two lines
ShortDumps ==
  { MemuseFile }
  \cup { [MemuseFile EXCEPT ![i] = << MemuseFile[i][1] >>] :
          i \in 1..Len(MemuseFile) }
  \cup { [MemuseFile EXCEPT ![i] = << >>] : i \in 1..Len(MemuseFile) }
  \cup { SubSeq(MemuseFile, 1, i) \o << << >> >>
          \o SubSeq(MemuseFile, i + 1, Len(MemuseFile)) :
          i \in 0..Len(MemuseFile) }

ShortReadings ==
  IF hist.reads = 0 THEN { Readable(lines) : lines \in ShortDumps }
  ELSE { Readable(hist.raw) }

MeminfoShort == MeminfoFireOn(ShortReadings)
MemuseShort == MemuseFireOn(ShortReadings)

NextShort ==
  \/ pc = "stopped" /\ DaemonBegin /\ UNCHANGED events
  \/ RunKernelCrash
  \/ RunUncleanShutdown
  \/ RunVersionCheck
  \/ RunOnInit
  \/ ParseAdvance
  \/ MeminfoShort
  \/ MemuseShort

SpecShort == Init /\ [][NextShort]_vars


(***************************************************************************)
(* Zram reports: ReportZram is called on the daemon object with zram       *)
(* directories of many contents.                                           *)
(***************************************************************************)
NoFile == [readable |-> FALSE, content |-> ""]
File(content) == [readable |-> TRUE, content |-> content]

ZramDirs ==
  [ compr_data_size :
      { NoFile } \cup { File(c) : c \in { "lots", "0", "4096", "1048575",
                                           "1048576", "2097152" } },
    orig_data_size :
      { NoFile } \cup { File(c) : c \in { "0", "4096", "4194304",
                                           "8388608" } },
    zero_pages :
      { NoFile } \cup { File(c) : c \in { "", "0", "1", "256" } } ]

ZramReport ==
  /\ ~d.fatal
  /\ \E zram_dir \in ZramDirs, undefined \in DivisionByZero :
       /\ d' = ReportZram(Begin(d), zram_dir, undefined)
       /\ hist' = [hist EXCEPT !.zram = zram_dir]
  /\ last' = "ReportZram"
  /\ UNCHANGED << pc, marker, now_ticks, wall_time, cpu_use, os_version,
                  active_time, events >>

NextZram == ZramReport

SpecZram == Init /\ [][NextZram]_vars


(***************************************************************************)
(* Properties.                                                             *)
(***************************************************************************)
\* the steps that call UpdateStats
StatsOps ==
  { "HandleUpdateStatsTimeout", "ProcessUserCrash", "ProcessKernelCrash",
    "ProcessUncleanShutdown" }
\* the handlers the message loop dispatches
LoopOps ==
  { "HandleUpdateStatsTimeout", "ProcessUserCrash", "MessageFilter",
    "MeminfoCallback", "MemuseCallback" }

\* the names of the samples a step sent, and the value sent under a name
SentNames(s) == { s.sent[i][1] : i \in 1..Len(s.sent) }
SentValues(s, name) ==
  { s.sent[i][2] : i \in { j \in 1..Len(s.sent) : s.sent[j][1] = name } }
\* the step emitted every counter of the set, and no counter of it twice
Flushed(s, counters) ==
  /\ counters \subseteq SentNames(s)
  /\ \A n \in counters :
       Cardinality({ i \in 1..Len(s.sent) : s.sent[i][1] = n }) = 1
NotFlushed(s, counters) == counters \cap SentNames(s) = {}

DayNow == InDays(wall_time)
WeekNow == CDiv(DayNow, kDaysPerWeek)

\* C1: a step that calls UpdateStats emits the five daily counters exactly
\* when the day index differs from daily.cycle (otherwise it emits none of
\* them), and leaves daily.cycle at the day index; so a call on the day of the
\* previous call never flushes and a call on another day flushes once.  The
\* timer handler, which calls nothing else, leaves the flushed counters at 0.
\* The same for the week index and weekly.cycle.
C1_FlushExactlyOnCrossing ==
  [][ last' \in StatsOps =>
        /\ IF DayNow # Val("daily_cycle_")
             THEN Flushed(d', DailyCounters)
             ELSE NotFlushed(d', DailyCounters)
        /\ PI_Get(d', "daily_cycle_") = DayNow
        /\ hist.update_day # -1 =>
             (Flushed(d', DailyCounters) <=> DayNow # hist.update_day)
        /\ IF WeekNow # Val("weekly_cycle_")
             THEN Flushed(d', WeeklyCounters)
             ELSE NotFlushed(d', WeeklyCounters)
        /\ PI_Get(d', "weekly_cycle_") = WeekNow
        /\ hist.update_day # -1 =>
             (Flushed(d', WeeklyCounters)
                <=> WeekNow # CDiv(hist.update_day, kDaysPerWeek))
        /\ last' = "HandleUpdateStatsTimeout" =>
             /\ Flushed(d', DailyCounters) =>
                  \A n \in DailyCounters : PI_Get(d', n) = 0
             /\ Flushed(d', WeeklyCounters) =>
                  \A n \in WeeklyCounters : PI_Get(d', n) = 0
    ]_vars

\* C1 witness: after a flush on the crossing into the next day and week, the
\* timer fired again on that day and flushed nothing.
C1_Witness ==
  /\ last = "HandleUpdateStatsTimeout"
  /\ d.sent = << >>
  /\ hist.updates = 2
  /\ Val("daily_cycle_") = FirstDay + 1
  /\ Val("weekly_cycle_") = CDiv(FirstDay + 1, kDaysPerWeek)

\* C2: the version check changes a counter only when the hash, as int32,
\* differs from version.cycle; it then sets version.cycle to the hash, the
\* three other version counters to 0 and changes no other counter; and in
\* the state it leaves, a second check with the same hash changes nothing.
C2_VersionCheckFrame ==
  /\ [][ last' = "CheckVersionChange" =>
           LET version == UInt32ToInt32(os_version) IN
           IF Val("version_cycle_") # version
             THEN /\ PI_Get(d', "version_cycle_") = version
                  /\ \A n \in VersionCounters \ {"version_cycle_"} :
                       PI_Get(d', n) = 0
                  /\ \A n \in Counters \ VersionCounters :
                       PI_Get(d', n) = Val(n)
             ELSE \A n \in Counters : PI_Get(d', n) = Val(n)
       ]_vars
  /\ [](last = "CheckVersionChange" =>
          /\ CheckVersionChange(d, os_version).disk = d.disk
          /\ \A n \in Counters :
               PI_Get(CheckVersionChange(d, os_version), n) = Val(n))

\* C2 witness: the check saw a new hash (one with the top bit set), reset the
\* kernel crash count of the old version and kept the weekly count.
C2_Witness ==
  /\ last = "CheckVersionChange"
  /\ Val("version_cycle_") = -1
  /\ Val("kernel_crashes_version_count_") = 0
  /\ Val("kernel_crashes_weekly_count_") = 1

\* C3, as claimed: nothing is processed before the version check; so while
\* Run() has not yet reached the check, no crash accounting has run.
C3_NothingBeforeVersionCheck ==
  hist.version_checks = 0 =>
    last \notin {"ProcessKernelCrash", "ProcessUncleanShutdown"}

\* C3, amended: the version check runs exactly once per start, after the
\* boot-marker crash accounting of Run() and before the message loop runs any
\* handler (timer callback or D-Bus signal) and before any callback is posted.
C3_VersionCheckBeforeLoop ==
  /\ hist.version_checks <= 1
  /\ pc \in {"oninit", "loop"} => hist.version_checks = 1
  /\ last \in LoopOps => hist.version_checks = 1
  /\ last \in {"ProcessKernelCrash", "ProcessUncleanShutdown"} =>
       hist.version_checks = 0
  /\ hist.version_checks = 0 /\ pc # "stopped" =>
       \A c \in Callbacks : d.pending[c] = 0

\* C3 witness: a start that accounted a kernel crash, then checked the
\* version, and whose loop has run the stats timer.
C3_Witness ==
  /\ last = "HandleUpdateStatsTimeout"
  /\ hist.version_checks = 1
  /\ hist.updates = 2
  /\ Val("kernel_crashes_weekly_count_") = 1

\* C4: every marker written is accounted exactly once: the passes run for a
\* marker file are the markers written to it, less the one still present; and
\* once Run() is past the check of a file, the file is absent.
C4_MarkerCountedOnce ==
  /\ \A f \in MarkerFiles : hist.credit[f] = IF marker[f] THEN 1 ELSE 0
  /\ pc \notin {"stopped", "kernel"} => ~marker[kKernelCrashDetectedFile]
  /\ pc \notin {"stopped", "kernel", "unclean"} =>
       ~marker[kUncleanShutdownDetectedFile]

\* C4 witness: the second start found no kernel-crash marker and accounted
\* nothing, the first start having accounted and deleted one.
C4_Witness ==
  /\ hist.starts = 2
  /\ pc = "unclean"
  /\ last = "RunKernelCrash"
  /\ Val("kernel_crashes_weekly_count_") = 1
  /\ hist.credit[kKernelCrashDetectedFile] = 0

\* C5, as claimed: while every read and parse succeeds, the memory use
\* activity emits no more than five samples (one per interval of
\* kMemuseIntervals), and once it has emitted five no callback is pending.
C5_ExactlyFiveSamples ==
  ~hist.memuse_failed =>
    /\ hist.memuse_samples <= Len(kMemuseIntervals)
    /\ hist.memuse_samples = Len(kMemuseIntervals) =>
         d.pending["MemuseCallback"] = 0

\* C6, as claimed: the stats timer's UpdateStats call adds the elapsed seconds
\* to daily active use (unless the call flushed it), to the cumulative active
\* use of the version and to each of the three crash interval counters.
C6_AllIntervalsAdvanceTogether ==
  [][ last' = "HandleUpdateStatsTimeout" =>
        LET elapsed == ElapsedSeconds(d, now_ticks) IN
        /\ "daily_active_use_" \notin SentNames(d') =>
             PI_Get(d', "daily_active_use_") = Val("daily_active_use_") + elapsed
        /\ PI_Get(d', "version_cumulative_active_use_")
             = Val("version_cumulative_active_use_") + elapsed
        /\ \A n \in IntervalCounters : PI_Get(d', n) = Val(n) + elapsed
    ]_vars

\* the crash handlers, the frequency counters, and those a handler counts in
CrashOps == { "ProcessUserCrash", "ProcessKernelCrash", "ProcessUncleanShutdown" }
FrequencyCounters == (DailyCounters \ {"daily_active_use_"}) \cup WeeklyCounters
CountedBy(op) ==
  {"any_crashes_daily_count_", "any_crashes_weekly_count_"} \cup
  CASE op = "ProcessUserCrash" ->
         {"user_crashes_daily_count_", "user_crashes_weekly_count_"}
    [] op = "ProcessKernelCrash" ->
         {"kernel_crashes_daily_count_", "kernel_crashes_weekly_count_"}
    [] op = "ProcessUncleanShutdown" ->
         {"unclean_shutdowns_daily_count_", "unclean_shutdowns_weekly_count_"}
\* the interval counter of a crash handler's kind
IntervalOf(op) ==
  CASE op = "ProcessUserCrash" -> "user_crash_interval_"
    [] op = "ProcessKernelCrash" -> "kernel_crash_interval_"
    [] op = "ProcessUncleanShutdown" -> "unclean_shutdown_interval_"

\* C7: a crash handler leaves every frequency counter at its value before
\* the handler (0 if the handler's stats update flushed it), plus 1 for the
\* any-crash and its own kind's daily and weekly counters and plus 0 for the
\* other kinds'.  kernel_crashes_version_count_ changes only by +1 in the
\* kernel crash handler (every time) and to 0 in a version check that saw a
\* new version: no flush changes it.
C7_CrashIncrements ==
  /\ [][ last' \in CrashOps =>
          \A c \in FrequencyCounters :
            PI_Get(d', c) = (IF c \in SentNames(d') THEN 0 ELSE Val(c))
                            + (IF c \in CountedBy(last') THEN 1 ELSE 0)
      ]_vars
  /\ [][ LET before == Val("kernel_crashes_version_count_")
             after == PI_Get(d', "kernel_crashes_version_count_")
         IN /\ last' = "ProcessKernelCrash" => after = before + 1
            /\ after # before =>
                 \/ last' = "ProcessKernelCrash"
                 \/ /\ last' = "CheckVersionChange"
                    /\ Val("version_cycle_") # UInt32ToInt32(os_version)
                    /\ after = 0
      ]_vars

\* C7 witness: one start accounted a kernel crash and then an unclean
\* shutdown: two crashes of any kind, one of each kind, no user crash.
C7_Witness ==
  /\ last = "ProcessUncleanShutdown"
  /\ Val("any_crashes_daily_count_") = 2
  /\ Val("any_crashes_weekly_count_") = 2
  /\ Val("kernel_crashes_daily_count_") = 1
  /\ Val("unclean_shutdowns_weekly_count_") = 1
  /\ Val("user_crashes_daily_count_") = 0
  /\ Val("kernel_crashes_version_count_") = 1

\* C8, as claimed: the handler of a crash of kind K sends, as K's interval
\* sample, the seconds the stats updates folded in since the previous crash
\* of kind K (this handler's update included), leaves K's interval counter
\* at 0, and neither sends nor lowers the interval counters of the other kinds.
C8_IntervalSampleIsTimeSinceLastEvent ==
  [][ last' \in CrashOps =>
        LET K == IntervalOf(last') IN
        /\ SentValues(d', K) = { hist.folded[K] + ElapsedSeconds(d, now_ticks) }
        /\ PI_Get(d', K) = 0
        /\ \A n \in IntervalCounters \ {K} :
             n \notin SentNames(d') /\ PI_Get(d', n) >= Val(n)
    ]_vars

C10_MeminfoRearmsIffParsed ==
  /\ [][ last' = "MeminfoCallback" =>
          /\ d'.pending["MeminfoCallback"] = IF d'.sent # << >> THEN 1 ELSE 0
          /\ d'.sent # << >> =>
               d'.delay["MeminfoCallback"] = kMetricMeminfoInterval
          /\ hist'.meminfo_failed <=> (hist.meminfo_failed \/ d'.sent = << >>)
      ]_vars
  /\ [](pc = "loop" =>
          d.pending["MeminfoCallback"] = IF hist.meminfo_failed THEN 0 ELSE 1)
  /\ [](pc = "loop" =>
          <>(hist.meminfo_failed
             \/ (last = "MeminfoCallback" /\ d.sent # << >>)))

\* C10 witness: the callback fired, parsed the file and is armed again.
C10_Witness ==
  /\ last = "MeminfoCallback"
  /\ d.sent # << >>
  /\ ~hist.meminfo_failed
  /\ d.pending["MeminfoCallback"] = 1
  /\ d.delay["MeminfoCallback"] = kMetricMeminfoInterval

\* C11: every firing of the stats timer leaves one stats task pending, with
\* the 5 minute delay; so in the loop a stats task is always pending, whatever
\* became of the meminfo and memuse callbacks, and the timer handler (and so
\* UpdateStats) runs again and again.
C11_StatsTimerAlwaysRearms ==
  /\ [][ last' = "HandleUpdateStatsTimeout" =>
          /\ d'.pending["HandleUpdateStatsTimeout"] = 1
          /\ d'.delay["HandleUpdateStatsTimeout"] = kUpdateStatsIntervalMs
          /\ hist'.updates > 0
      ]_vars
  /\ [](pc = "loop" =>
          /\ d.pending["HandleUpdateStatsTimeout"] = 1
          /\ d.delay["HandleUpdateStatsTimeout"] = kUpdateStatsIntervalMs)
  /\ [](pc = "loop" => <>(last = "HandleUpdateStatsTimeout"))

\* C11 witness: the stats timer fired and is armed again after both the
\* meminfo and the memuse callback failed and stopped.
C11_Witness ==
  /\ last = "HandleUpdateStatsTimeout"
  /\ hist.meminfo_failed
  /\ hist.memuse_failed
  /\ d.pending["MeminfoCallback"] = 0
  /\ d.pending["MemuseCallback"] = 0
  /\ d.pending["HandleUpdateStatsTimeout"] = 1

\* the line an ordered merge takes for field i of a schema: the first line
\* after the line of field i - 1 that has the field's label; Len(lines) + 1
\* if there is none
RECURSIVE MergeLine(_, _, _)
MergeLine(lines, match, i) ==
  IF i = 0 THEN 0
  ELSE LET after == MergeLine(lines, match, i - 1)
           found == { j \in (after + 1)..Len(lines) : lines[j][1] = match[i] }
       IN IF found = {} THEN Len(lines) + 1
          ELSE CHOOSE j \in found : \A k \in found : j <= k
\* every field of the schema is found, in order, with a number for its value
Merged(lines, match) ==
  \A i \in 1..Len(match) :
    /\ MergeLine(lines, match, i) <= Len(lines)
    /\ lines[MergeLine(lines, match, i)][2] \in DOMAIN NumeralValue
MergedValue(lines, match, i) ==
  NumeralValue[lines[MergeLine(lines, match, i)][2]]

MeminfoValue(lines, name) ==
  MergedValue(lines, MeminfoMatch,
    CHOOSE i \in 1..Len(MeminfoFields) : MeminfoFields[i].name = name)

ZramNumber(file) == file.readable /\ file.content \in DOMAIN Uint64Value
ZramC == Uint64Value[hist.zram.compr_data_size.content]
ZramO == Uint64Value[hist.zram.orig_data_size.content]
ZramZ == Uint64Value[hist.zram.zero_pages.content]
ZramCorrected == ZramO + ZramZ * 4096

\* C14: a zram report that read all three of C, O and Z sent its samples:
\* compressed size, savings, zero pages and zero ratio, each once.
C14_EveryReadableTripleReported ==
  last = "ReportZram"
  /\ (\A f \in DOMAIN hist.zram : ZramNumber(hist.zram[f])) =>
    /\ ~d.fatal
    /\ Flushed(d, { "Platform.ZramCompressedSize", "Platform.ZramSavings",
                    "Platform.ZramZeroPages",
                    "Platform.ZramZeroRatioPercent" })

\* C14, where the corrected original size is not 0: a zram report that read
\* C, O and Z, with O' = O + Z * 4096 not 0, sent C >> 20, (O' - C) >> 20,
\* Z and Z * 4096 * 100 / O', each once, and O' * 100 / C if and only if
\* C >> 20 >= 1; a report that could not read one of the three sent nothing.
C14_ZramReport ==
  last = "ReportZram" =>
    IF \E f \in DOMAIN hist.zram : ~ZramNumber(hist.zram[f])
      THEN d.sent = << >> /\ ~d.fatal
      ELSE ZramCorrected # 0 =>
        /\ ~d.fatal
        /\ Flushed(d, { "Platform.ZramCompressedSize", "Platform.ZramSavings",
                        "Platform.ZramZeroPages",
                        "Platform.ZramZeroRatioPercent" })
        /\ SentValues(d, "Platform.ZramCompressedSize") = { ZramC \div 1048576 }
        /\ SentValues(d, "Platform.ZramSavings")
             = { (ZramCorrected - ZramC) \div 1048576 }
        /\ SentValues(d, "Platform.ZramZeroPages") = { ZramZ }
        /\ SentValues(d, "Platform.ZramZeroRatioPercent")
             = { (ZramZ * 4096 * 100) \div ZramCorrected }
        /\ IF ZramC \div 1048576 >= 1
             THEN /\ Len(d.sent) = 5
                  /\ SentValues(d, "Platform.ZramCompressionRatioPercent")
                       = { (ZramCorrected * 100) \div ZramC }
             ELSE Len(d.sent) = 4

\* C14 witness: C = 1048576, O = 4194304 and Z = 256 gave savings 4 and
\* ratio 500.
C14_Witness ==
  /\ last = "ReportZram"
  /\ hist.zram = [compr_data_size |-> File("1048576"),
                  orig_data_size |-> File("4194304"),
                  zero_pages |-> File("256")]
  /\ ZramCorrected = 5242880
  /\ SentValues(d, "Platform.ZramSavings") = { 4 }
  /\ SentValues(d, "Platform.ZramCompressionRatioPercent") = { 500 }

\* C15: no handler ends the daemon process: no fatal check fails.
C15_NoFatalCheckFails == ~d.fatal /\ pc # "aborted"

\* C16: the first UpdateStats call of a daemon start adds the seconds from
\* the start of the daemon to the call to the time counters, and a later
\* call the seconds since the call before it.
C16_FirstUpdateCountsFromDaemonStart ==
  [][ last' \in StatsOps =>
        PI_Get(d', "version_cumulative_active_use_")
          - PI_Get(d, "version_cumulative_active_use_")
        = InSeconds(now_ticks' - (IF hist.updates = 0
                                    THEN hist.start_ticks
                                    ELSE d.last_update_stats_time_))
    ]_vars

\* the marks of the schedule: the sum of the first k intervals, in seconds
\* (1 minute, 5 minutes, 0.5 hour, 2.5 hours, 12.5 hours)
RECURSIVE MemuseMark(_)
MemuseMark(k) == IF k = 0 THEN 0 ELSE MemuseMark(k - 1) + kMemuseIntervals[k]

\* C17: while no read or parse fails, the k-th memory use sample of a
\* daemon started at active time 0 is taken no sooner than the k-th mark,
\* and the deadline the callback then sets is the mark after it.
C17_SamplesAtTheMarks ==
  /\ last = "MemuseCallback"
  /\ d.sent # << >>
  /\ ~hist.memuse_failed
  /\ hist.memuse_samples <= Len(kMemuseIntervals)
  => /\ active_time >= MemuseMark(hist.memuse_samples) * TimeResolution
     /\ hist.memuse_samples < Len(kMemuseIntervals) =>
          d.memuse_final_time_
            = MemuseMark(hist.memuse_samples + 1) * TimeResolution

\* C18: a memuse callback that fires before the deadline sends nothing,
\* leaves the index and the deadline alone and posts itself again with the
\* remaining time rounded up to whole seconds; a memuse callback sends a
\* sample only at or after the deadline.
C18_EarlyFiringsWait ==
  [][ last' = "MemuseCallback" =>
        LET remaining == d.memuse_final_time_ - active_time IN
        IF remaining > 0
          THEN /\ d'.sent = << >>
               /\ d'.memuse_interval_index_ = d.memuse_interval_index_
               /\ d'.memuse_final_time_ = d.memuse_final_time_
               /\ d'.pending["MemuseCallback"] = d.pending["MemuseCallback"]
               /\ d'.delay["MemuseCallback"] * TimeResolution >= remaining
               /\ (d'.delay["MemuseCallback"] - 1) * TimeResolution < remaining
          ELSE d'.sent # << >> => active_time >= d.memuse_final_time_
    ]_vars

\* C18 witness: the callback fired less than a second before the deadline
\* and waits one more second.
C18_Witness ==
  /\ last = "MemuseCallback"
  /\ d.sent = << >>
  /\ active_time < d.memuse_final_time_
  /\ d.memuse_final_time_ - active_time < TimeResolution
  /\ d.pending["MemuseCallback"] = 1
  /\ d.delay["MemuseCallback"] = 1

\* C19: a crash handler leaves the any-crash and its own kind's daily and
\* weekly counters at 1 or more; where its stats update flushed such a
\* counter, the sample is the count before the crash and the counter is 1:
\* the crash is counted after the flush, in the new day or week.
C19_CrashCountedAfterFlush ==
  [][ last' \in CrashOps =>
        \A n \in CountedBy(last') :
          /\ PI_Get(d', n) >= 1
          /\ n \in SentNames(d') =>
               /\ SentValues(d', n) = { Val(n) }
               /\ PI_Get(d', n) = 1
    ]_vars

\* C19 witness: a crash handler flushed a day that had one crash and
\* counted its own crash in the new day.
C19_Witness ==
  /\ last \in CrashOps
  /\ SentValues(d, "any_crashes_daily_count_") = { 1 }
  /\ Val("any_crashes_daily_count_") = 1
  /\ \E n \in CountedBy(last) \cap DailyCounters :
       n # "any_crashes_daily_count_" /\ Val(n) = 1

\* C20: in a step that calls UpdateStats, a daily counter is reset exactly
\* when the day index differs from daily.cycle and a weekly counter exactly
\* when the week index differs from weekly.cycle, whatever the other check
\* does: a counter that is not reset keeps its value (plus the elapsed
\* seconds for daily active use, plus 1 where a crash handler counts), and
\* a flush sends no counter of the other period.
C20_FlushesAreIndependent ==
  [][ last' \in StatsOps =>
        LET day_fires == DayNow # Val("daily_cycle_")
            week_fires == WeekNow # Val("weekly_cycle_")
            counted(n) == IF last' \in CrashOps /\ n \in CountedBy(last')
                            THEN 1 ELSE 0
            elapsed(n) == IF n = "daily_active_use_"
                            THEN ElapsedSeconds(d, now_ticks) ELSE 0
        IN /\ \A n \in DailyCounters :
                PI_Get(d', n)
                  = (IF day_fires THEN 0 ELSE Val(n) + elapsed(n)) + counted(n)
           /\ \A n \in WeeklyCounters :
                PI_Get(d', n) = (IF week_fires THEN 0 ELSE Val(n)) + counted(n)
           /\ ~day_fires => NotFlushed(d', DailyCounters)
           /\ ~week_fires => NotFlushed(d', WeeklyCounters)
    ]_vars

\* C20 witness: the timer's stats update flushed the day and not the week;
\* the daily count of crashes is 0 again and the weekly count still 1.
C20_Witness ==
  /\ last = "HandleUpdateStatsTimeout"
  /\ Flushed(d, DailyCounters)
  /\ SentValues(d, "any_crashes_daily_count_") = { 1 }
  /\ NotFlushed(d, WeeklyCounters)
  /\ Val("any_crashes_daily_count_") = 0
  /\ Val("any_crashes_weekly_count_") = 1

\* C21: a step whose stats update flushed the day sent the crash count and
\* the CPU use of the version as they are stored after the update, without
\* resetting them, and sent the crashes per CPU year exactly when the CPU
\* use is positive and the crashes per active year exactly when the active
\* use is positive, each as crashes * seconds per year / time used.
C21_VersionReportReadsOnly ==
  [][ last' \in StatsOps /\ Flushed(d', DailyCounters) =>
        LET crashes == Val("kernel_crashes_version_count_")
            cpu_ms == PI_Get(d', "version_cumulative_cpu_use_")
            active == PI_Get(d', "version_cumulative_active_use_")
            year == kSecondsPerDay * 365
        IN /\ PI_Get(d', "kernel_crashes_version_count_")
                = crashes + (IF last' = "ProcessKernelCrash" THEN 1 ELSE 0)
           /\ SentValues(d', "kernel_crashes_version_count_") = { crashes }
           /\ cpu_ms
                = Val("version_cumulative_cpu_use_")
                  + InMilliseconds(cpu_use - d.latest_cpu_use_microseconds_)
           /\ SentValues(d', "version_cumulative_cpu_use_")
                = { CDiv(cpu_ms, 1000) }
           /\ active = Val("version_cumulative_active_use_")
                         + ElapsedSeconds(d, now_ticks)
           /\ IF cpu_ms > 0
                THEN SentValues(d', "Logging.KernelCrashesPerCpuYear")
                       = { MulDiv(crashes * year, 1000, cpu_ms) }
                ELSE "Logging.KernelCrashesPerCpuYear" \notin SentNames(d')
           /\ IF active > 0
                THEN /\ SentValues(d', "Logging.KernelCrashesPerActiveYear")
                          = { CDiv(crashes * year, active) }
                     /\ SentValues(d', "version_cumulative_active_use_")
                          = { active }
                ELSE /\ "Logging.KernelCrashesPerActiveYear"
                          \notin SentNames(d')
                     /\ "version_cumulative_active_use_" \notin SentNames(d')
    ]_vars

\* C21 witness: a daily flush of a version with CPU use and no active use
\* sent the crashes per CPU year and not the crashes per active year, and
\* the CPU use is still there.
C21_Witness ==
  /\ last \in StatsOps
  /\ Flushed(d, DailyCounters)
  /\ Val("version_cumulative_cpu_use_") > 0
  /\ Val("version_cumulative_active_use_") = 0
  /\ "Logging.KernelCrashesPerCpuYear" \in SentNames(d)
  /\ "Logging.KernelCrashesPerActiveYear" \notin SentNames(d)

\* a * k for 0 <= k <= 101, as << millions, rest >>, and the order of two
\* such products
Wide(a, k) ==
  << (a \div 1000000) * k + ((a % 1000000) * k) \div 1000000,
     ((a % 1000000) * k) % 1000000 >>
WideLeq(x, y) == x[1] < y[1] \/ (x[1] = y[1] /\ x[2] <= y[2])
\* floor(v * 100 / t) for 0 <= v <= t, t > 0
ExactPercent(v, t) ==
  CHOOSE p \in 0..100 :
    /\ WideLeq(Wide(t, p), Wide(v, 100))
    /\ ~WideLeq(Wide(t, p + 1), Wide(v, 100))

\* the place of field i's sample among the samples of ProcessMeminfo
MeminfoSampleOf(i) ==
  Cardinality({ j \in 2..i :
    MeminfoFields[j].op \in { kMeminfoOp_HistPercent, kMeminfoOp_HistLog } })

\* C22: a callback that parsed its fields, with total memory t > 0, did not
\* stop the daemon and sent floor(v * 100 / t), a value of 0..100, for every
\* percent field v of 0..t of the meminfo callback, and for the sum of the
\* two anonymous fields, if it is in 0..t, of the memuse callback.
C22_PercentIsExact ==
  /\ last = "MeminfoCallback" /\ hist.parsed
     /\ Merged(hist.raw, MeminfoMatch)
     /\ MergedValue(hist.raw, MeminfoMatch, 1) > 0 =>
       LET t == MergedValue(hist.raw, MeminfoMatch, 1) IN
       \A i \in 2..Len(MeminfoFields) :
         LET v == MergedValue(hist.raw, MeminfoMatch, i) IN
         MeminfoFields[i].op = kMeminfoOp_HistPercent /\ v >= 0 /\ v <= t =>
           /\ ~d.fatal
           /\ Len(d.sent) >= MeminfoSampleOf(i)
           /\ d.sent[MeminfoSampleOf(i)]
                = << << "Platform.Meminfo", MeminfoFields[i].name >>,
                     ExactPercent(v, t) >>
  /\ last = "MemuseCallback" /\ hist.parsed
     /\ Merged(hist.raw, MemuseMatch)
     /\ MergedValue(hist.raw, MemuseMatch, 1) > 0 =>
       LET t == MergedValue(hist.raw, MemuseMatch, 1)
           active_anon == MergedValue(hist.raw, MemuseMatch, 2)
           inactive_anon == MergedValue(hist.raw, MemuseMatch, 3)
       IN active_anon >= 0 /\ inactive_anon >= 0
          /\ active_anon <= t /\ inactive_anon <= t - active_anon =>
            /\ ~d.fatal
            /\ Len(d.sent) = 1
            /\ d.sent[1][2] = ExactPercent(active_anon + inactive_anon, t)

\* C23: between two handlers the daily count of crashes of any kind is the
\* sum of the daily counts of user crashes, kernel crashes and unclean
\* shutdowns, and the weekly count the sum of the three weekly counts.
C23_AnyCrashIsTheSum ==
  /\ Val("any_crashes_daily_count_")
       = Val("user_crashes_daily_count_") + Val("kernel_crashes_daily_count_")
         + Val("unclean_shutdowns_daily_count_")
  /\ Val("any_crashes_weekly_count_")
       = Val("user_crashes_weekly_count_") + Val("kernel_crashes_weekly_count_")
         + Val("unclean_shutdowns_weekly_count_")

\* C23 witness: after a daily flush that left the week alone, a user crash
\* was counted: one crash of the day, and three of the week, one of each
\* kind.
C23_Witness ==
  /\ last = "ProcessUserCrash"
  /\ Val("any_crashes_daily_count_") = 1
  /\ Val("any_crashes_weekly_count_") = 3
  /\ Val("user_crashes_weekly_count_") = 1
  /\ Val("kernel_crashes_weekly_count_") = 1
  /\ Val("unclean_shutdowns_weekly_count_") = 1

\* C24: no callback has more than one task pending; the handler of a
\* callback leaves at most one task of its own pending and the tasks of
\* the other callbacks as they are, and a step of Run() before OnInit
\* posts nothing.
C24_OnePendingTaskEach ==
  /\ [](\A c \in Callbacks : d.pending[c] \in {0, 1})
  /\ [][ /\ last' \in Callbacks =>
             /\ d.pending[last'] = 1
             /\ d'.pending[last'] \in {0, 1}
             /\ \A c \in Callbacks \ {last'} :
                  d'.pending[c] = d.pending[c]
         /\ last' \notin Callbacks \cup {"OnInit", "DaemonStart"} =>
             d'.pending = d.pending
      ]_vars

\* C24 witness: the third memuse sample was sent and each of the three
\* callbacks has its one task pending.
C24_Witness ==
  /\ last = "MemuseCallback"
  /\ d.sent # << >>
  /\ d.memuse_interval_index_ = 3
  /\ \A c \in Callbacks : d.pending[c] = 1

\* C25: after an UpdateStats call, the elapsed seconds the calls of this
\* start have added are the whole seconds from the baseline of the first
\* call (the default TimeTicks, 0) to this call, however many calls there
\* were, and the call added no negative value.
C25_NoTimeLostBetweenCalls ==
  last \in StatsOps =>
    /\ hist.added = InSeconds(now_ticks - 0)
    /\ d.last_update_stats_time_ = now_ticks

\* C26: a zram report that read C, O and Z divided by no 0 and wrapped no
\* subtraction: the corrected original size O' = O + Z * 4096, which
\* divides the zero ratio, is not 0 and the report did not end the process;
\* C is not 0 where the compression ratio was sent; and O' >= C, so that the
\* savings sample is not negative.
C26_NoDivisionByZero ==
  last = "ReportZram"
  /\ (\A f \in DOMAIN hist.zram : ZramNumber(hist.zram[f])) =>
    /\ ZramCorrected # 0
    /\ ~d.fatal
    /\ SentValues(d, "Platform.ZramCompressionRatioPercent") # {} => ZramC # 0
    /\ ZramCorrected >= ZramC
    /\ \A v \in SentValues(d, "Platform.ZramSavings") : v >= 0

\* C27: a meminfo or memuse callback that read a file had FillMeminfo read
\* no token that does not exist, whatever the lines of the file: the label
\* of a line was read only where the line has a token, the value only
\* where it has two, and the scan did not end the process.
C27_TokensExist ==
  last \in {"MeminfoCallback", "MemuseCallback"} /\ hist.parsed =>
    LET match == IF last = "MeminfoCallback" THEN MeminfoMatch
                                             ELSE MemuseMatch
    IN /\ ~d.fatal
       /\ \A undefined \in OutOfRange :
            ~FillMeminfo(hist.raw, match, undefined).beyond

====
